---- MODULE Spec2Model ----
(***************************************************************************)
(* pipecmd: a fluent builder of external commands (leaf commands, pipe /   *)
(* and / or chains, redirection) and the algorithms that run them.         *)
(*                                                                         *)
(* The state is the Command Node the caller has built so far (cmd), the    *)
(* last builder operation applied to it (lastOp) and what the last run     *)
(* call did: its arguments (call), the ordered log of spawn / wait / raise *)
(* / return events (trace) and how it ended (outcome).  Where the lists of  *)
(* members are followed as the objects they are, heap holds them; runner   *)
(* is the Result Adapter (CommandRunner) being configured; io is a call    *)
(* that captures the output of a process, step by step.                    *)
(***************************************************************************)
EXTENDS Integers, Sequences, FiniteSets, TLC

VARIABLES cmd, lastOp, call, trace, outcome, heap, runner, io

vars == <<cmd, lastOp, call, trace, outcome, heap, runner, io>>

(***************************************************************************)
(* Bounds of the model.                                                    *)
(***************************************************************************)
\* nesting depth of a command (a leaf has depth 0)
MaxDepth == 2
\* leaves of a command that is still extended or run
MaxLeaves == 3
\* exit codes range over 0..MaxExit
MaxExit == 1

ExitCodes == 0..MaxExit

(***************************************************************************)
(* Values.  Every value is a tagged record, so that Undefined, None, the   *)
(* subprocess specials, paths, booleans, integers and streams are all      *)
(* distinct from one another, as they are in Python.                       *)
(***************************************************************************)
Undefined == [t |-> "undefined"]
None      == [t |-> "None"]
PIPE      == [t |-> "PIPE"]
DEVNULL   == [t |-> "DEVNULL"]
BoolV(b)  == [t |-> "bool", b |-> b]
IntV(n)   == [t |-> "int", n |-> n]
PathV(s)  == [t |-> "path", s |-> s]
\* the stream open(path, mode) returns, opened by the run of process p
OpenFile(s, mode, p) == [t |-> "file", s |-> s, mode |-> mode, by |-> p]
\* the stdout stream of process p (Popen.stdout when stdout=PIPE)
StdoutOf(p) == [t |-> "stdout", of |-> p]

IsUndefined(v) == v.t = "undefined"

\* Undefined.get_default(*vals): the first value that is not Undefined
GetDefault(vals) ==
    LET defined == { i \in 1..Len(vals) : ~IsUndefined(vals[i]) }
    IN  IF defined = {} THEN Undefined
        ELSE vals[CHOOSE i \in defined : \A j \in defined : i <= j]

(***************************************************************************)
(* Command Nodes.                                                          *)
(***************************************************************************)
Leaf(check) ==
    [check |-> check, k |-> "leaf",
     input |-> Undefined, output |-> Undefined, append |-> Undefined]

Chain(kind, cmds, check) == [check |-> check, k |-> kind, cmds |-> cmds]

ChainKinds == {"pipe", "and", "or"}

IsChain(n) == n.k \in ChainKinds

RECURSIVE NumLeaves(_)
NumLeaves(n) ==
    IF n.k = "leaf" THEN 1
    ELSE LET RECURSIVE Sum(_)
             Sum(i) == IF i = 0 THEN 0 ELSE NumLeaves(n.cmds[i]) + Sum(i - 1)
         IN  Sum(Len(n.cmds))

RECURSIVE Depth(_)
Depth(n) ==
    IF n.k = "leaf" THEN 0
    ELSE LET RECURSIVE Max(_)
             Max(i) == IF i = 0 THEN 0
                       ELSE LET d == Depth(n.cmds[i])
                                m == Max(i - 1)
                            IN  IF d > m THEN d ELSE m
         IN  1 + Max(Len(n.cmds))

(***************************************************************************)
(* Builder operations.  kwargs is a Python keyword dictionary: a function  *)
(* whose domain is the set of the keywords given.                          *)
(***************************************************************************)
\* a redirect that stores None as it is given
LeafRedirectKeepNone(n, kwargs) ==
    [f \in DOMAIN n |-> IF f \in DOMAIN kwargs THEN kwargs[f] ELSE n[f]]

\* Command.redirect: None is a shortcut for DEVNULL; dataclasses.replace
LeafRedirect(n, kwargs) ==
    LET kw == [f \in DOMAIN kwargs |->
                 IF f \in {"input", "output"} /\ kwargs[f] = None
                 THEN DEVNULL ELSE kwargs[f]]
    IN  [f \in DOMAIN n |-> IF f \in DOMAIN kw THEN kw[f] ELSE n[f]]

\* BaseCommandChain._split_args: <<in_args, out_args>>
SplitArgs(kwargs) ==
    IF "input" \in DOMAIN kwargs
    THEN << [f \in {"input"} |-> kwargs[f]],
            [f \in (DOMAIN kwargs) \ {"input"} |-> kwargs[f]] >>
    ELSE << kwargs, kwargs >>

RECURSIVE Redirect(_, _)
\* BaseCommandChain.redirect: an empty dictionary is falsy
ChainRedirect(n, kwargs) ==
    LET in_args  == SplitArgs(kwargs)[1]
        out_args == SplitArgs(kwargs)[2]
        last     == Len(n.cmds)
        cmds1 == IF DOMAIN in_args # {}
                 THEN [n.cmds EXCEPT ![1] = Redirect(n.cmds[1], in_args)]
                 ELSE n.cmds
        cmds2 == IF DOMAIN out_args # {}
                 THEN [cmds1 EXCEPT ![last] = Redirect(cmds1[last], out_args)]
                 ELSE cmds1
    IN  [n EXCEPT !.cmds = cmds2]

Redirect(n, kwargs) ==
    IF n.k = "leaf" THEN LeafRedirect(n, kwargs) ELSE ChainRedirect(n, kwargs)

\* _concat_cmd that never flattens
ConcatCmdNested(self, other) == Append(self.cmds, other)

\* BaseCommandChain._concat_cmd with flatten = True
ConcatCmd(self, other) ==
    IF other.k = self.k THEN self.cmds \o other.cmds
    ELSE Append(self.cmds, other)

\* BaseCommand.pipe_to, overridden by CommandChain.pipe_to
PipeTo(self, other) ==
    IF self.k = "pipe" THEN [self EXCEPT !.cmds = ConcatCmd(self, other)]
    ELSE Chain("pipe", <<self, other>>, self.check)

\* BaseCommand.on_success, overridden by CommandAndChain.on_success
OnSuccess(self, other) ==
    IF self.k = "and" THEN [self EXCEPT !.cmds = ConcatCmd(self, other)]
    ELSE Chain("and", <<self, other>>, self.check)

\* BaseCommand.on_failure, overridden by CommandOrChain.on_failure
OnFailure(self, other) ==
    IF self.k = "or" THEN [self EXCEPT !.cmds = ConcatCmd(self, other)]
    ELSE Chain("or", <<self, other>>, self.check)

\* BaseCommand.__lt__: cmd < input
Lt(self, input) ==
    Redirect(self, [input |-> IF input = None THEN DEVNULL ELSE input])

\* BaseCommand.__gt__: cmd > output
Gt(self, output) == Redirect(self, [output |-> output])

\* BaseCommand.__rrshift__: file >> cmd
RRshift(self, file) == Redirect(self, [input |-> file])

\* BaseCommand.__lshift__: cmd << file
Lshift(self, file) == Redirect(self, [input |-> file])

\* BaseCommand.__rshift__: cmd >> file
Rshift(self, file) == Redirect(self, [output |-> file, append |-> BoolV(TRUE)])

\* BaseCommand.__rlshift__: file << cmd
RLshift(self, file) == Redirect(self, [output |-> file, append |-> BoolV(TRUE)])

\* The method Python calls for each written form.  A target (a path, a
\* file, None) has no comparison or shift with a command, so for a target
\* on the left t < cmd calls cmd.__gt__(t), t > cmd calls cmd.__lt__(t),
\* t >> cmd calls cmd.__rrshift__(t) and t << cmd calls cmd.__rlshift__(t).
OperatorForms ==
    {"cmd<t", "cmd>t", "cmd<<t", "cmd>>t", "t<cmd", "t>cmd", "t<<cmd", "t>>cmd"}

Operator(form, self, t) ==
    CASE form = "cmd<t"  -> Lt(self, t)
      [] form = "cmd>t"  -> Gt(self, t)
      [] form = "cmd<<t" -> Lshift(self, t)
      [] form = "cmd>>t" -> Rshift(self, t)
      [] form = "t<cmd"  -> Gt(self, t)
      [] form = "t>cmd"  -> Lt(self, t)
      [] form = "t<<cmd" -> RLshift(self, t)
      [] form = "t>>cmd" -> RRshift(self, t)

(***************************************************************************)
(* Running.  A run threads the event log through the calls it makes:       *)
(*   call   : run was called on the node at path with the arguments a      *)
(*   spawn  : subprocess.Popen was called (process p, for the leaf at      *)
(*            path, with the stdin / stdout it was given, and the wait and *)
(*            the resolved check of that leaf run)                         *)
(*   wait   : proc.wait() returned the exit code rc of process p           *)
(*   raise  : CalledProcessError was raised for process p                  *)
(*   return : the run of the node at path returned the handle of p         *)
(* A run's result is [trace, ok, p]: the log, whether it returned (ok) or  *)
(* raised, and the process returned or raised for.  exits[p] is the exit   *)
(* code process p ends with.                                               *)
(***************************************************************************)
Args(stdin, stdout, append, wait, check) ==
    [check |-> check, append |-> append, stdin |-> stdin,
     stdout |-> stdout, wait |-> wait]

SpawnsOf(tr) == { i \in 1..Len(tr) : tr[i].e = "spawn" }

SpawnEvent(tr, p) == tr[CHOOSE i \in SpawnsOf(tr) : tr[i].p = p]

\* Popen.returncode: <<>> is None (the process was never waited)
ReturnCode(tr, p) ==
    LET w == { i \in 1..Len(tr) : tr[i].e = "wait" /\ tr[i].p = p }
    IN  IF w = {} THEN <<>> ELSE << tr[CHOOSE i \in w : TRUE].rc >>

\* Popen.stdout: a stream only when the process was spawned with stdout=PIPE
ProcStdout(tr, p) ==
    IF SpawnEvent(tr, p).stdout = PIPE THEN StdoutOf(p) ELSE None

\* Command._get_file, for the run that spawns process p
GetFile(file, fallback, mode, p) ==
    IF IsUndefined(file) /\ IsUndefined(fallback) THEN None
    ELSE LET f == IF IsUndefined(file) THEN fallback ELSE file
         IN  IF f.t = "path" THEN OpenFile(f.s, mode, p) ELSE f

\* the check that takes an integer policy for "exit 0"
CheckFailsNonZero(check, returncode) ==
    check # BoolV(FALSE) /\ returncode # 0

\* Command.run, lines 296-298: the check after proc.wait()
CheckFails(check, returncode) ==
    LET chk == IF check = BoolV(TRUE) THEN IntV(0) ELSE check
    IN  chk # BoolV(FALSE) /\ IntV(returncode) # chk

\* a run that waits for the process whatever the caller asked
WaitsAlways(a) == TRUE

\* Command.run, line 294: if wait
Waits(a) == a.wait

\* exits[p] when subprocess.Popen raises instead of starting process p
\* (the command is not found or may not be executed)
SpawnFails == -1

\* Command.run
RunLeaf(leaf, path, a, tr, exits) ==
    LET p      == Cardinality(SpawnsOf(tr)) + 1
        stdin  == GetFile(a.stdin, leaf.input, "rb", p)
        append == GetDefault(<<a.append, leaf.append, BoolV(FALSE)>>)
        stdout == GetFile(a.stdout, leaf.output,
                          IF append = BoolV(TRUE) THEN "ab" ELSE "wb", p)
        check  == GetDefault(<<a.check, leaf.check>>)
        spawned == Append(tr, [p |-> p, check |-> check, stdin |-> stdin,
                               stdout |-> stdout, wait |-> a.wait,
                               e |-> "spawn", path |-> path])
        waited == Append(spawned, [p |-> p, e |-> "wait", rc |-> exits[p]])
        failed == Append(tr, [p |-> p, stdin |-> stdin, stdout |-> stdout,
                              e |-> "spawnfail", path |-> path])
    IN  IF exits[p] = SpawnFails
        THEN [trace |-> Append(failed, [p |-> p, e |-> "raise"]),
              p |-> p, ok |-> FALSE]
        ELSE
        IF Waits(a)
        THEN IF CheckFails(check, exits[p])
             THEN [trace |-> Append(waited, [p |-> p, e |-> "raise"]),
                   p |-> p, ok |-> FALSE]
             ELSE [trace |-> Append(waited, [p |-> p, e |-> "return", path |-> path]),
                   p |-> p, ok |-> TRUE]
        ELSE [trace |-> Append(spawned, [p |-> p, e |-> "return", path |-> path]),
              p |-> p, ok |-> TRUE]

\* a chain's run returns the handle its member's run returned
Returned(r, path) ==
    IF r.ok
    THEN [r EXCEPT !.trace = Append(r.trace, [p |-> r.p, e |-> "return", path |-> path])]
    ELSE r

\* the && test taken the wrong way round
AndStopsOnSuccess(returncode) == returncode = <<0>>

\* CommandAndChain.run, line 395
AndStops(returncode) == returncode # <<0>>

\* the || test taken the wrong way round
OrStopsOnFailure(returncode) == returncode # <<0>>

\* CommandOrChain.run, line 447
OrStops(returncode) == returncode = <<0>>

\* a chain that keeps the check to the last member
MemberArgsNoCheck(stdin, a) == Args(stdin, Undefined, Undefined, TRUE, Undefined)

\* a chain that waits its members only if the caller waits
MemberArgsCallerWait(stdin, a) == Args(stdin, Undefined, Undefined, a.wait, a.check)

\* CommandAndChain.run, line 393, and CommandOrChain.run, line 445: how a
\* member other than the last is run
MemberArgsOf(stdin, a) == Args(stdin, Undefined, Undefined, TRUE, a.check)

RECURSIVE RunNode(_, _, _, _, _)
RECURSIVE AndLoop(_, _, _, _, _, _, _)
RECURSIVE OrLoop(_, _, _, _, _, _, _)
RECURSIVE PipeLoop(_, _, _, _, _, _, _)

\* CommandAndChain.run: the loop at member i, then the last member
AndLoop(n, path, a, i, stdin, tr, exits) ==
    IF i < Len(n.cmds)
    THEN LET r == RunNode(n.cmds[i], Append(path, i), MemberArgsOf(stdin, a),
                          tr, exits)
         IN  IF ~r.ok THEN r
             ELSE IF AndStops(ReturnCode(r.trace, r.p)) THEN Returned(r, path)
             ELSE AndLoop(n, path, a, i + 1, Undefined, r.trace, exits)
    ELSE Returned(RunNode(n.cmds[i], Append(path, i),
                          Args(Undefined, a.stdout, a.append, a.wait, a.check),
                          tr, exits), path)

\* CommandOrChain.run: the loop at member i, then the last member
OrLoop(n, path, a, i, stdin, tr, exits) ==
    IF i < Len(n.cmds)
    THEN LET r == RunNode(n.cmds[i], Append(path, i), MemberArgsOf(stdin, a),
                          tr, exits)
         IN  IF ~r.ok THEN r
             ELSE IF OrStops(ReturnCode(r.trace, r.p)) THEN Returned(r, path)
             ELSE OrLoop(n, path, a, i + 1, Undefined, r.trace, exits)
    ELSE Returned(RunNode(n.cmds[i], Append(path, i),
                          Args(Undefined, a.stdout, a.append, a.wait, a.check),
                          tr, exits), path)

\* a pipe that leaves the output of its members where they send it
PipeMemberArgsNoPipe(stdin) == Args(stdin, Undefined, Undefined, FALSE, Undefined)

\* CommandChain.run, line 476: how a member other than the last is run
PipeMemberArgs(stdin) == Args(stdin, PIPE, Undefined, FALSE, Undefined)

\* CommandChain.run: the loop at member i, then the last member
PipeLoop(n, path, a, i, stdin, tr, exits) ==
    IF i < Len(n.cmds)
    THEN LET r == RunNode(n.cmds[i], Append(path, i), PipeMemberArgs(stdin),
                          tr, exits)
         IN  IF ~r.ok THEN r
             ELSE PipeLoop(n, path, a, i + 1, ProcStdout(r.trace, r.p),
                           r.trace, exits)
    ELSE Returned(RunNode(n.cmds[i], Append(path, i),
                          Args(stdin, a.stdout, a.append, a.wait, a.check),
                          tr, exits), path)

\* BaseCommand.run, dispatched on the class of the node
RunNode(n, path, a, tr, exits) ==
    LET called == Append(tr, [e |-> "call", a |-> a, path |-> path])
    IN  CASE n.k = "leaf" -> RunLeaf(n, path, a, called, exits)
          [] n.k = "and"  -> AndLoop(n, path, a, 1, a.stdin, called, exits)
          [] n.k = "or"   -> OrLoop(n, path, a, 1, a.stdin, called, exits)
          [] n.k = "pipe" -> PipeLoop(n, path, a, 1, a.stdin, called, exits)

(***************************************************************************)
(* The inputs the operations are called with.                              *)
(***************************************************************************)
\* CommandHelper.__getattr__: sh.name and checked.name
BaseLeaves == { Leaf(BoolV(c)) : c \in BOOLEAN }

RedirectKeys == {"input", "output", "append"}

RedirectValues(f) ==
    CASE f = "input"  -> {PathV("in")}
      [] f = "output" -> {None, PathV("out")}
      [] f = "append" -> {BoolV(TRUE)}

\* the keyword dictionaries redirect is called with (RedirectArgs, total=False)
RedirectDicts ==
    UNION { { kw \in [D -> {None, PathV("in"), PathV("out"), BoolV(TRUE)}] :
                \A f \in D : kw[f] \in RedirectValues(f) } :
            D \in (SUBSET RedirectKeys) \ {{}} }

\* the right operands of the combinators: leaves, a redirected leaf, and
\* the chains the three combinators make of two leaves
Operands ==
    BaseLeaves
    \cup { LeafRedirect(Leaf(BoolV(FALSE)),
                        [input |-> PathV("in"), output |-> PathV("out")]) }
    \cup { PipeTo(x, y)    : x \in BaseLeaves, y \in BaseLeaves }
    \cup { OnSuccess(x, y) : x \in BaseLeaves, y \in BaseLeaves }
    \cup { OnFailure(x, y) : x \in BaseLeaves, y \in BaseLeaves }

CheckArgs == {Undefined, BoolV(FALSE), BoolV(TRUE)} \cup { IntV(c) : c \in 1..MaxExit }

\* the stdin a run is called with: none, or a path
StdinArgs == {Undefined, PathV("sin")}

\* <<stdout, append>>: append matters only where the output is a path
OutArgs == { <<Undefined, Undefined>>, <<PIPE, Undefined>>,
             <<PathV("sout"), BoolV(TRUE)>> }

RunArgs ==
    { Args(i, o[1], o[2], w, c) :
        i \in StdinArgs, o \in OutArgs,
        w \in BOOLEAN, c \in CheckArgs }

\* The combinators make no chain of one member: the only ones here are
\* the chains constructed directly around one leaf, not nested in another.
RECURSIVE NestsSingle(_, _)
NestsSingle(n, top) ==
    /\ IsChain(n)
    /\ \/ Len(n.cmds) = 1 /\ (~top \/ n.cmds[1].k # "leaf")
       \/ \E i \in 1..Len(n.cmds) : NestsSingle(n.cmds[i], FALSE)

Fits(n) ==
    /\ NumLeaves(n) <= MaxLeaves
    /\ Depth(n) <= MaxDepth
    /\ ~NestsSingle(n, TRUE)

(***************************************************************************)
(* The state machine.                                                      *)
(***************************************************************************)
NoCall == [t |-> "none"]

\* no list is followed as an object, no adapter is configured
NoHeap == <<>>

NoRunner == [t |-> "none"]

\* no output is being captured
NoIO == [pc |-> "none"]

NotRun == [st |-> "none"]

\* The sets the actions draw their inputs from are the same objects in every
\* behaviour, and TLC sorts a set in place the first time it is enumerated.
\* Each initial predicate enumerates the input sets of its specification, so
\* that they are in their final form before the first action is taken.
Enumerated(sets) == \A i \in DOMAIN sets : Cardinality(sets[i]) >= 0

Init ==
    /\ Enumerated(<<ChainKinds, BaseLeaves, RedirectKeys, RedirectDicts,
                    Operands, CheckArgs, StdinArgs, OutArgs, RunArgs>>)
    /\ cmd \in BaseLeaves
    /\ lastOp = [op |-> "new"]
    /\ call = NoCall
    /\ trace = <<>>
    /\ outcome = NotRun
    /\ heap = NoHeap
    /\ runner = NoRunner
    /\ io = NoIO

\* A builder call returns a new command, on which nothing has been run yet.
\* The commands are immutable and a run changes none, so what can be built
\* after a run is what can be built before it: a behaviour builds, then runs.
Built(new, op) ==
    /\ outcome = NotRun
    /\ Fits(new)
    /\ cmd' = new
    /\ lastOp' = op
    /\ call' = NoCall
    /\ trace' = <<>>
    /\ outcome' = NotRun
    /\ UNCHANGED <<heap, runner, io>>

\* cmd = cmd.redirect(**kwargs)
DoRedirect(kwargs) ==
    Built(Redirect(cmd, kwargs), [kwargs |-> kwargs, op |-> "redirect"])

\* cmd = cmd | other
DoPipeTo(other) ==
    Built(PipeTo(cmd, other), [op |-> "pipe_to"])

\* cmd = cmd & other
DoOnSuccess(other) ==
    Built(OnSuccess(cmd, other), [op |-> "on_success"])

\* cmd = cmd ^ other
DoOnFailure(other) ==
    Built(OnFailure(cmd, other), [op |-> "on_failure"])

\* cmd = CommandChain([cmd]) / CommandAndChain([cmd]) / CommandOrChain([cmd])
DoMakeChain(kind) ==
    Built(Chain(kind, <<cmd>>, BoolV(FALSE)),
          [op |-> "make_chain"])

\* cmd.run(stdin, stdout, append, wait, check)
DoRun(a, exits) ==
    LET r == RunNode(cmd, <<>>, a, <<>>, exits)
    IN  /\ outcome = NotRun
        /\ call' = a
        /\ trace' = r.trace
        /\ outcome' = [p |-> r.p, st |-> IF r.ok THEN "returned" ELSE "raised"]
        /\ UNCHANGED <<cmd, lastOp, heap, runner, io>>

\* the redirections of the commands that are run
RunRedirects == { [input |-> PathV("in"), output |-> PathV("out")] }

Next ==
    \/ \E kwargs \in RunRedirects : DoRedirect(kwargs)
    \/ \E other \in Operands : DoPipeTo(other)
    \/ \E other \in Operands : DoOnSuccess(other)
    \/ \E other \in Operands : DoOnFailure(other)
    \/ \E kind \in ChainKinds : DoMakeChain(kind)
    \/ \E a \in RunArgs, exits \in [1..NumLeaves(cmd) -> ExitCodes] : DoRun(a, exits)

Spec == Init /\ [][Next]_vars

\* building alone, with every redirection
NextBuild ==
    \/ \E kwargs \in RedirectDicts : DoRedirect(kwargs)
    \/ \E other \in Operands : DoPipeTo(other)
    \/ \E other \in Operands : DoOnSuccess(other)
    \/ \E other \in Operands : DoOnFailure(other)

SpecBuild == Init /\ [][NextBuild]_vars

(***************************************************************************)
(* Reading the log of the last run.                                        *)
(***************************************************************************)
Ran == outcome.st # "none"

RanChain(kind) == Ran /\ cmd.k = kind

NumMembers == Len(cmd.cmds)

\* the spawn events of the processes of top-level member i
MemberSpawns(i) == { j \in SpawnsOf(trace) : trace[j].path[1] = i }

\* where the run of top-level member i returned, if it did
MemberReturns(i) ==
    { j \in 1..Len(trace) : trace[j].e = "return" /\ trace[j].path = <<i>> }

MemberRan(i) == MemberReturns(i) # {}

\* the handle the run of member i returned, and its returncode
MemberProc(i) == trace[CHOOSE j \in MemberReturns(i) : TRUE].p

MemberCode(i) == ReturnCode(trace, MemberProc(i))

\* the call of run on top-level member i, and its arguments
MemberCalls(i) ==
    { j \in 1..Len(trace) : trace[j].e = "call" /\ trace[j].path = <<i>> }

MemberArgs(i) == trace[CHOOSE j \in MemberCalls(i) : TRUE].a

\* the node of command n at path
RECURSIVE NodeAt(_, _)
NodeAt(n, path) ==
    IF path = <<>> THEN n ELSE NodeAt(n.cmds[Head(path)], Tail(path))

\* path leads through a member, other than the last, of an and / or chain
UnderNonFinalAndOr(n, path) ==
    \E k \in 1..Len(path) :
        LET parent == NodeAt(n, SubSeq(path, 1, k - 1))
        IN  parent.k \in {"and", "or"} /\ path[k] < Len(parent.cmds)

\* the leaf the run ended on: the one whose handle was returned, or that raised
EndPath == SpawnEvent(trace, outcome.p).path

\* the arguments run was called with on the node at path
CallArgsAt(path) ==
    trace[CHOOSE j \in 1..Len(trace) :
              trace[j].e = "call" /\ trace[j].path = path].a

\* the path of the last leaf of n: the last member of the last member ...
RECURSIVE LastPath(_)
LastPath(n) ==
    IF n.k = "leaf" THEN <<>>
    ELSE <<Len(n.cmds)>> \o LastPath(n.cmds[Len(n.cmds)])

\* n is, or has among its members at any depth, an and / or chain
RECURSIVE HasAndOr(_)
HasAndOr(n) ==
    /\ IsChain(n)
    /\ \/ n.k \in {"and", "or"}
       \/ \E i \in 1..Len(n.cmds) : HasAndOr(n.cmds[i])

\* no process that was waited on was checked
NoCheckInForce ==
    \A j \in SpawnsOf(trace) : trace[j].wait => trace[j].check = BoolV(FALSE)

\* each member is spawned, and returns, before the next one is spawned
MembersInOrder ==
    \A i \in 1..NumMembers, k \in 1..NumMembers :
        i < k =>
          \A ji \in MemberSpawns(i) \cup MemberReturns(i), jk \in MemberSpawns(k) :
              ji < jk

\* the run returned the handle of member i
ReturnedMember(i) ==
    outcome.st = "returned" /\ MemberRan(i) /\ outcome.p = MemberProc(i)

(***************************************************************************)
(* C1.  An AndThen chain of two or more members, run with no check in      *)
(* force: the members run in order; a member is run exactly when every     *)
(* member before it was run, waited and exited 0; run never raises and     *)
(* returns the handle of the last member that was run (the first one that  *)
(* exited non-zero, or else the last member of the chain).                 *)
(***************************************************************************)
C1_AndShortCircuit ==
    (RanChain("and") /\ NumMembers >= 2 /\ NoCheckInForce) =>
        /\ outcome.st = "returned"
        /\ MembersInOrder
        /\ \A i \in 1..NumMembers :
              /\ (MemberSpawns(i) # {}) = MemberRan(i)
              /\ MemberRan(i) = (\A k \in 1..(i - 1) :
                                    MemberRan(k) /\ MemberCode(k) = <<0>>)
              /\ (MemberRan(i) /\ i < NumMembers) => MemberCode(i) # <<>>
              /\ (MemberRan(i) /\ i < NumMembers /\ MemberCode(i) # <<0>>)
                    => ReturnedMember(i)
        /\ MemberRan(NumMembers) => ReturnedMember(NumMembers)

\* the second of three members exits non-zero: the third is never spawned
C1_Witness ==
    /\ RanChain("and") /\ NumMembers = 3 /\ NoCheckInForce
    /\ MemberRan(2) /\ MemberCode(1) = <<0>> /\ MemberCode(2) # <<0>>
    /\ MemberSpawns(3) = {}
    /\ ReturnedMember(2)

PipeStdin(i) ==
    IF i = 1 THEN call.stdin ELSE ProcStdout(trace, MemberProc(i - 1))

PipeWiring ==
    /\ MembersInOrder
    /\ \A i \in 1..NumMembers : MemberCalls(i) # {} =>
          /\ \A k \in 1..(i - 1) : MemberRan(k)
          /\ MemberArgs(i) =
                IF i < NumMembers THEN Args(PipeStdin(i), PIPE, Undefined, FALSE, Undefined)
                ELSE Args(PipeStdin(i), call.stdout, call.append, call.wait, call.check)
          /\ (i < NumMembers /\ cmd.cmds[i].k = "leaf") =>
                \A j \in MemberSpawns(i) :
                    /\ trace[j].stdout = PIPE
                    /\ ~trace[j].wait
                    /\ ReturnCode(trace, trace[j].p) = <<>>
    /\ outcome.st = "returned" => ReturnedMember(NumMembers)

RedirectFrame(before, after, kwargs) ==
    LET last == Len(before.cmds)
    IN  /\ after.k = before.k /\ after.check = before.check
        /\ Len(after.cmds) = last
        /\ \A i \in 2..(last - 1) : after.cmds[i] = before.cmds[i]
        /\ "input" \notin DOMAIN kwargs => after.cmds[1] = before.cmds[1]
        /\ DOMAIN kwargs \subseteq {"input"} => after.cmds[last] = before.cmds[last]
        /\ before.cmds[1].k = "leaf" =>
              /\ after.cmds[1].output = before.cmds[1].output
              /\ after.cmds[1].append = before.cmds[1].append
        /\ before.cmds[last].k = "leaf" =>
              after.cmds[last].input = before.cmds[last].input

\* C4 as claimed: a redirect step on a chain changes what RedirectFrame allows
C4_RedirectFrame ==
    [][ (lastOp'.op = "redirect" /\ IsChain(cmd) /\ Len(cmd.cmds) >= 2)
          => RedirectFrame(cmd, cmd', lastOp'.kwargs) ]_vars

(***************************************************************************)
(* C5.  The check policy, as the run docstring states it: False never      *)
(* fails, True fails on an exit code other than 0, N on one other than N.  *)
(***************************************************************************)
Violates(policy, rc) ==
    CASE policy = BoolV(FALSE) -> FALSE
      [] policy = BoolV(TRUE)  -> rc # 0
      [] OTHER                 -> policy.t = "int" /\ rc # policy.n

\* the policy in force on the leaf the run ended on: the check its run was
\* called with, or else its own
EndPolicy ==
    IF IsUndefined(CallArgsAt(EndPath).check)
    THEN NodeAt(cmd, EndPath).check
    ELSE CallArgsAt(EndPath).check

EndCode == ReturnCode(trace, outcome.p)

\* C5 as claimed: a leaf or a pipe run with wait raises exactly when the
\* exit code of the final process violates the check resolved from the
\* caller's argument and the final leaf's own; no other member raises
C5_RaisesIffFinalFails ==
    (Ran /\ call.wait /\ cmd.k \in {"leaf", "pipe"}) =>
        /\ EndPath = LastPath(cmd)
        /\ EndCode # <<>>
        /\ (outcome.st = "raised") =
              Violates(IF IsUndefined(call.check)
                       THEN NodeAt(cmd, EndPath).check ELSE call.check,
                       EndCode[1])

\* C5 as amended: the run ends on a waited process and raises exactly when
\* its exit code violates the policy in force on it; with no and / or
\* chain inside, that process is the final one and the policy the caller's
\* check or else the final leaf's own; a member other than the last ends
\* the run only by raising from inside an and / or chain, from one of its
\* members other than the last
C5_CheckPolicy ==
    (Ran /\ call.wait /\ cmd.k \in {"leaf", "pipe"}) =>
        /\ EndCode # <<>>
        /\ (outcome.st = "raised") = Violates(EndPolicy, EndCode[1])
        /\ EndPath = LastPath(cmd) \/ UnderNonFinalAndOr(cmd, EndPath)
        /\ ~HasAndOr(cmd) =>
              /\ EndPath = LastPath(cmd)
              /\ CallArgsAt(EndPath).check = call.check
              /\ \A j \in 1..Len(trace) :
                    trace[j].e = "wait" => trace[j].p = outcome.p
        /\ (cmd.k = "pipe" /\ EndPath[1] < NumMembers) =>
              /\ outcome.st = "raised"
              /\ IsChain(cmd.cmds[EndPath[1]])
              /\ UnderNonFinalAndOr(cmd, EndPath)

\* a pipe of leaves run with check=1: the first member is checked on its
\* own account and is not waited, the last exits 1 and nothing is raised
C5_Witness ==
    /\ RanChain("pipe") /\ ~HasAndOr(cmd) /\ NumMembers >= 2
    /\ cmd.cmds[1] = Leaf(BoolV(TRUE))
    /\ call.wait /\ call.check = IntV(1)
    /\ outcome.st = "returned" /\ EndCode = <<1>>

(***************************************************************************)
(* C6.  CommandFailed and wait.                                            *)
(***************************************************************************)
\* C6 as claimed: a run called with wait=False never raises
C6_NoRaiseWithoutWait ==
    (Ran /\ ~call.wait) => outcome.st # "raised"

\* C6 as amended: a run raises only for a process it waited on, whose own
\* run was called with wait=True; when the caller passed wait=False that
\* process belongs to a member, other than the last, of an and / or chain,
\* so that a leaf and a pipe of leaves never raise, and the final leaf of
\* any command is left unwaited
C6_RaiseOnlyWaited ==
    Ran =>
        /\ outcome.st = "raised" =>
              /\ EndCode # <<>>
              /\ CallArgsAt(EndPath).wait
              /\ Violates(EndPolicy, EndCode[1])
        /\ ~call.wait =>
              /\ outcome.st = "raised" => UnderNonFinalAndOr(cmd, EndPath)
              /\ ~HasAndOr(cmd) => outcome.st = "returned"
              /\ \A j \in SpawnsOf(trace) :
                    trace[j].path = LastPath(cmd) =>
                        ReturnCode(trace, trace[j].p) = <<>>

\* an and chain run with wait=False and check=True raises on its first member
C6_Witness ==
    /\ RanChain("and") /\ NumMembers >= 2
    /\ ~call.wait /\ call.check = BoolV(TRUE)
    /\ outcome.st = "raised" /\ EndPath = <<1>>

(***************************************************************************)
(* C7.  An and / or chain run with check=True.                             *)
(***************************************************************************)
\* C7: the chain passes check=True to every member it runs; the handle a
\* member returns, if waited, exited 0; a leaf member that is waited and
\* exits non-zero is where the run raises; after a raise in member i no
\* member after i is spawned; an or chain never runs a second member
C7_CheckForwarded ==
    (Ran /\ cmd.k \in {"and", "or"} /\ call.check = BoolV(TRUE)) =>
        /\ MembersInOrder
        /\ \A i \in 1..NumMembers :
              /\ MemberCalls(i) # {} => MemberArgs(i).check = BoolV(TRUE)
              /\ (MemberRan(i) /\ MemberCode(i) # <<>>) => MemberCode(i) = <<0>>
              /\ cmd.cmds[i].k = "leaf" =>
                    \A j \in MemberSpawns(i) :
                        ReturnCode(trace, trace[j].p) \notin {<<>>, <<0>>} =>
                            outcome = [p |-> trace[j].p, st |-> "raised"]
        /\ outcome.st = "raised" =>
              /\ EndCode \notin {<<>>, <<0>>}
              /\ \A k \in 1..NumMembers :
                    (MemberCalls(k) # {}) = (k <= EndPath[1])
        /\ cmd.k = "or" => \A k \in 2..NumMembers : MemberCalls(k) = {}

\* the second of three unchecked members of an and chain exits non-zero
C7_Witness ==
    /\ RanChain("and") /\ NumMembers = 3 /\ call.check = BoolV(TRUE)
    /\ cmd.cmds[2] = Leaf(BoolV(FALSE))
    /\ MemberCode(1) = <<0>>
    /\ outcome.st = "raised" /\ EndPath = <<2>> /\ EndCode = <<1>>
    /\ MemberSpawns(3) = {}

(***************************************************************************)
(* C8.  The check of a chain as the default of its members.                *)
(***************************************************************************)
\* C8 as claimed: in a chain whose own check is True, run with wait and no
\* check argument, a member that is a plain leaf with no check of its own,
\* is waited on and exits non-zero makes the run raise
C8_ChainCheckInherited ==
    (Ran /\ IsChain(cmd) /\ cmd.check = BoolV(TRUE)
         /\ call.wait /\ IsUndefined(call.check)) =>
        \A i \in 1..NumMembers : cmd.cmds[i] = Leaf(BoolV(FALSE)) =>
            \A j \in MemberSpawns(i) :
                ReturnCode(trace, trace[j].p) \notin {<<>>, <<0>>}
                    => outcome = [p |-> trace[j].p, st |-> "raised"]

(***************************************************************************)
(* C9.  A chain of one member.                                             *)
(***************************************************************************)
\* what m.run(call) does with a leaf m: the files Popen gets, the wait, the
\* check in force and whether it raises on exit code rc
AloneSpawn(m, rc) ==
    LET append == IF ~IsUndefined(call.append) THEN call.append
                  ELSE IF ~IsUndefined(m.append) THEN m.append ELSE BoolV(FALSE)
        check  == IF ~IsUndefined(call.check) THEN call.check ELSE m.check
    IN  [check  |-> check,
         stdin  |-> GetFile(call.stdin, m.input, "rb", 1),
         stdout |-> GetFile(call.stdout, m.output,
                            IF append = BoolV(TRUE) THEN "ab" ELSE "wb", 1),
         wait   |-> call.wait,
         raises |-> call.wait /\ Violates(check, rc)]

\* C9 as claimed: a chain of one leaf spawns it as the leaf's own run would
\* and ends as it would
C9_SingleAsMember ==
    (Ran /\ IsChain(cmd) /\ NumMembers = 1 /\ cmd.cmds[1].k = "leaf") =>
        LET e    == SpawnEvent(trace, 1)
            rc   == IF EndCode = <<>> THEN 0 ELSE EndCode[1]
            want == AloneSpawn(cmd.cmds[1], rc)
        IN  /\ Cardinality(SpawnsOf(trace)) = 1
            /\ e.stdin = want.stdin
            /\ e.stdout = want.stdout
            /\ e.wait = want.wait
            /\ e.check = want.check
            /\ (EndCode # <<>>) = call.wait
            /\ (outcome.st = "raised") = want.raises

(***************************************************************************)
(* C10.  The order in which a chain spawns its members.                    *)
(***************************************************************************)
\* the and / or test that ends the chain at a member other than the last
ShortCircuits(i) ==
    /\ cmd.k \in {"and", "or"} /\ i < NumMembers
    /\ ReturnedMember(i)
    /\ IF cmd.k = "and" THEN MemberCode(i) \notin {<<>>, <<0>>}
                        ELSE MemberCode(i) = <<0>>

C11_PipeMembersReclaimed ==
    (RanChain("pipe") /\ call.wait) =>
        \A i \in 1..(NumMembers - 1) :
            \A j \in MemberSpawns(i) : ReturnCode(trace, trace[j].p) # <<>>

(***************************************************************************)
(* The builder operations one at a time: a command of up to MaxOpLeaves    *)
(* leaves is drawn, and one combinator or one redirection operator is      *)
(* applied to it; lastOp keeps the receiver and the operand.               *)
(***************************************************************************)
MaxOpLeaves == 4

\* the commands the operations are applied to: the operands, and the
\* two-member chains with a redirection on each side
OpCommands ==
    Operands
    \cup { Redirect(x, [input |-> PathV("in"), output |-> PathV("out"),
                        append |-> BoolV(TRUE)]) :
             x \in { PipeTo(Leaf(BoolV(FALSE)), Leaf(BoolV(TRUE))),
                     OnSuccess(Leaf(BoolV(FALSE)), Leaf(BoolV(TRUE))),
                     OnFailure(Leaf(BoolV(FALSE)), Leaf(BoolV(TRUE))) } }

\* the targets of the redirection operators
Targets == {None, PathV("f")}

InitOps ==
    /\ Enumerated(<<OpCommands, Operands, Targets, OperatorForms>>)
    /\ cmd \in OpCommands
    /\ lastOp = [op |-> "new"]
    /\ call = NoCall
    /\ trace = <<>>
    /\ outcome = NotRun
    /\ heap = NoHeap
    /\ runner = NoRunner
    /\ io = NoIO

\* one operation on the drawn command gives a new command
Applied(new, op) ==
    /\ lastOp.op = "new"
    /\ NumLeaves(new) <= MaxOpLeaves
    /\ cmd' = new
    /\ lastOp' = op
    /\ UNCHANGED <<call, trace, outcome, heap, runner, io>>

\* cmd | other,  cmd & other,  cmd ^ other
OpPipeTo(other) ==
    Applied(PipeTo(cmd, other), [self |-> cmd, other |-> other, op |-> "pipe_to"])

OpOnSuccess(other) ==
    Applied(OnSuccess(cmd, other), [self |-> cmd, other |-> other, op |-> "on_success"])

OpOnFailure(other) ==
    Applied(OnFailure(cmd, other), [self |-> cmd, other |-> other, op |-> "on_failure"])

\* cmd < t,  t < cmd,  ...
OpOperator(form, t) ==
    Applied(Operator(form, cmd, t),
            [self |-> cmd, form |-> form, op |-> "operator", target |-> t])

NextOps ==
    \/ \E other \in OpCommands : OpPipeTo(other)
    \/ \E other \in OpCommands : OpOnSuccess(other)
    \/ \E other \in OpCommands : OpOnFailure(other)
    \/ \E form \in OperatorForms, t \in Targets : OpOperator(form, t)

SpecOps == InitOps /\ [][NextOps]_vars

(***************************************************************************)
(* C12.  Combining with | & ^.                                             *)
(***************************************************************************)
CombinatorKind(op) ==
    CASE op = "pipe_to" -> "pipe" [] op = "on_success" -> "and" [] op = "on_failure" -> "or"

\* the leaves of a command, left to right
RECURSIVE LeavesOf(_)
LeavesOf(n) ==
    IF n.k = "leaf" THEN <<n>>
    ELSE LET RECURSIVE Cat(_)
             Cat(i) == IF i = 0 THEN <<>> ELSE Cat(i - 1) \o LeavesOf(n.cmds[i])
         IN  Cat(Len(n.cmds))

\* C12: a chain combined by its own combinator with a chain of its kind
\* has the members of the left one followed by those of the right one; with
\* any other right operand it has the left members followed by the operand
\* as one member; a left operand that is not a chain of the combinator's
\* kind gives a chain of two members, the operands themselves.  The leaves
\* keep their left-to-right order in every case.
C12_ConcatFlattens ==
    lastOp.op \in {"pipe_to", "on_success", "on_failure"} =>
        LET kind  == CombinatorKind(lastOp.op)
            left  == lastOp.self
            right == lastOp.other
        IN  /\ cmd.k = kind
            /\ LeavesOf(cmd) = LeavesOf(left) \o LeavesOf(right)
            /\ (left.k = kind /\ right.k = kind) =>
                  cmd.cmds = left.cmds \o right.cmds
            /\ (left.k = kind /\ right.k # kind) =>
                  cmd.cmds = Append(left.cmds, right)
            /\ left.k # kind => cmd.cmds = <<left, right>>

\* (a | b) | (c | d) with a # b: four members
C12_Witness ==
    /\ lastOp.op = "pipe_to"
    /\ lastOp.self.k = "pipe" /\ lastOp.other.k = "pipe"
    /\ lastOp.self.cmds[1] # lastOp.self.cmds[2]
    /\ Len(cmd.cmds) = 4
    /\ \A i \in 1..4 : cmd.cmds[i].k = "leaf"

(***************************************************************************)
(* C18.  The redirection operators, command first and file first.          *)
(***************************************************************************)
InputForms == {"cmd<t", "t>cmd", "cmd<<t", "t>>cmd"}

\* what a target is stored as: None is the null device
Sink(t) == IF t = None THEN DEVNULL ELSE t

FirstLeaf(n) == LeavesOf(n)[1]

FinalLeaf(n) == LeavesOf(n)[Len(LeavesOf(n))]

\* C18: t < cmd is cmd > t and sets the output of the last leaf to t;
\* t << cmd is cmd >> t and sets it in append mode; t > cmd, cmd < t,
\* t >> cmd and cmd << t are one command, whose first leaf has input t;
\* a target None is stored as DEVNULL; the kind, the check and the number
\* of members of the command are kept
C18_OperatorForms ==
    lastOp.op = "operator" =>
        LET self == lastOp.self
            t    == lastOp.target
            form == lastOp.form
        IN  /\ cmd.k = self.k /\ cmd.check = self.check
            /\ Len(LeavesOf(cmd)) = Len(LeavesOf(self))
            /\ form \in InputForms =>
                  /\ \A g \in InputForms : cmd = Operator(g, self, t)
                  /\ FirstLeaf(cmd).input = Sink(t)
                  /\ FinalLeaf(cmd).output = FinalLeaf(self).output
                  /\ FinalLeaf(cmd).append = FinalLeaf(self).append
            /\ form \in {"cmd>t", "t<cmd"} =>
                  /\ cmd = Operator("cmd>t", self, t)
                  /\ cmd = Operator("t<cmd", self, t)
                  /\ FinalLeaf(cmd).output = Sink(t)
                  /\ FirstLeaf(cmd).input = FirstLeaf(self).input
            /\ form \in {"cmd>>t", "t<<cmd"} =>
                  /\ cmd = Operator("cmd>>t", self, t)
                  /\ cmd = Operator("t<<cmd", self, t)
                  /\ FinalLeaf(cmd).output = Sink(t)
                  /\ FinalLeaf(cmd).append = BoolV(TRUE)
                  /\ FirstLeaf(cmd).input = FirstLeaf(self).input

\* None < (a & b), the chain having redirections of its own
C18_Witness ==
    /\ lastOp.op = "operator" /\ lastOp.form = "t<cmd" /\ lastOp.target = None
    /\ lastOp.self.k = "and"
    /\ FinalLeaf(lastOp.self).output = PathV("out")
    /\ FinalLeaf(cmd).output = DEVNULL

(***************************************************************************)
(* The builder operations on objects.  A frozen dataclass cannot have a    *)
(* field assigned, but the cmds of a chain is a list, which can change in  *)
(* place.  Here heap[a] is the list object at address a, a chain is        *)
(* [k, check, cmds |-> a], and a leaf carries its args tuple.  Each        *)
(* operation returns [heap, val]: the heap it leaves and the value it      *)
(* returns.                                                                *)
(***************************************************************************)
MaxHeap == 4
MaxArgs == 2

\* a list that is the very list it was made from
AliasOf(h, a) == [heap |-> h, addr |-> a]

\* list(self.cmds): a new list object with the same items
CopyOf(h, a) == [heap |-> Append(h, h[a]), addr |-> Len(h) + 1]

\* [self, other]: a new list object
NewList(h, items) == [heap |-> Append(h, items), addr |-> Len(h) + 1]

\* Command with its args
HLeaf(check, args) ==
    [check |-> check, k |-> "leaf", input |-> Undefined,
     output |-> Undefined, append |-> Undefined, args |-> args]

\* Command.__getitem__: args=(*self.args, *args)
GetItem(self, args) == [self EXCEPT !.args = self.args \o args]

\* BaseCommandChain.redirect / Command.redirect
RECURSIVE HRedirect(_, _, _)
HRedirect(h, n, kwargs) ==
    IF n.k = "leaf" THEN [heap |-> h, val |-> LeafRedirect(n, kwargs)]
    ELSE
      LET in_args  == SplitArgs(kwargs)[1]
          out_args == SplitArgs(kwargs)[2]
          c   == CopyOf(h, n.cmds)
          a   == c.addr
          r1  == HRedirect(c.heap, c.heap[a][1], in_args)
          h1  == IF DOMAIN in_args # {}
                 THEN [r1.heap EXCEPT ![a][1] = r1.val] ELSE c.heap
          last == Len(h1[a])
          r2  == HRedirect(h1, h1[a][last], out_args)
          h2  == IF DOMAIN out_args # {}
                 THEN [r2.heap EXCEPT ![a][last] = r2.val] ELSE h1
      IN  [heap |-> h2, val |-> [n EXCEPT !.cmds = a]]

\* BaseCommandChain._concat_cmd: cmds = list(self.cmds), then cmds +=
\* other.cmds or cmds.append(other), both in place
HConcatCmd(h, self, other) ==
    LET c == CopyOf(h, self.cmds)
    IN  [heap |-> [c.heap EXCEPT ![c.addr] =
                      IF other.k = self.k THEN @ \o c.heap[other.cmds]
                      ELSE Append(@, other)],
         addr |-> c.addr]

\* pipe_to / on_success / on_failure, of BaseCommand and of the chain of
\* the combinator's own kind
HCombine(kind, h, self, other) ==
    IF self.k = kind
    THEN LET c == HConcatCmd(h, self, other)
         IN  [heap |-> c.heap, val |-> [self EXCEPT !.cmds = c.addr]]
    ELSE LET c == NewList(h, <<self, other>>)
         IN  [heap |-> c.heap,
              val |-> [check |-> self.check, k |-> kind, cmds |-> c.addr]]

\* the command an object stands for: its lists read from the heap
RECURSIVE Deref(_, _)
Deref(h, n) ==
    IF n.k = "leaf"
    THEN [check |-> n.check, k |-> "leaf", input |-> n.input,
          output |-> n.output, append |-> n.append]
    ELSE Chain(n.k, [i \in 1..Len(h[n.cmds]) |-> Deref(h, h[n.cmds][i])], n.check)

\* the objects there are at the start: the two leaves, and a chain of each
\* kind on each of the two lists
HLeaves == { HLeaf(BoolV(c), <<>>) : c \in BOOLEAN }

HObjects ==
    HLeaves \cup { [check |-> BoolV(FALSE), k |-> kind, cmds |-> a] :
                     kind \in ChainKinds, a \in 1..2 }

HRedirects ==
    { [input |-> None], [output |-> PathV("out")],
      [input |-> PathV("in"), output |-> None, append |-> BoolV(TRUE)] }

InitHeap ==
    /\ Enumerated(<<ChainKinds, HLeaves, HObjects, HRedirects>>)
    /\ heap = << <<HLeaf(BoolV(FALSE), <<>>), HLeaf(BoolV(TRUE), <<>>)>>,
                 <<HLeaf(BoolV(FALSE), <<"-l">>), HLeaf(BoolV(FALSE), <<>>)>> >>
    /\ cmd \in HObjects
    /\ lastOp = [op |-> "new"]
    /\ call = NoCall
    /\ trace = <<>>
    /\ outcome = NotRun
    /\ runner = NoRunner
    /\ io = NoIO

\* an operation on cmd returned r.val; before is the heap it started from
HBuilt(r, op, operands) ==
    /\ outcome = NotRun
    /\ Len(r.heap) <= MaxHeap
    /\ cmd' = r.val
    /\ heap' = r.heap
    /\ lastOp' = [self |-> cmd, op |-> op, before |-> heap, operands |-> operands]
    /\ UNCHANGED <<call, trace, outcome, runner, io>>

\* cmd = cmd[args]
HGetItem(args) ==
    /\ cmd.k = "leaf"
    /\ Len(cmd.args) + Len(args) <= MaxArgs
    /\ HBuilt([heap |-> heap, val |-> GetItem(cmd, args)], "getitem", <<>>)

\* cmd = cmd.redirect(**kwargs)
HDoRedirect(kwargs) ==
    HBuilt(HRedirect(heap, cmd, kwargs), "redirect", <<>>)

\* cmd = cmd | other,  cmd & other,  cmd ^ other
HDoCombine(kind, other) ==
    HBuilt(HCombine(kind, heap, cmd, other), "combine", <<other>>)

\* cmd.run(), every process exiting alike: the lists are only read
HDoRun(exits) ==
    LET a == Args(Undefined, Undefined, Undefined, TRUE, Undefined)
        r == RunNode(Deref(heap, cmd), <<>>, a, <<>>, exits)
    IN  /\ outcome = NotRun
        /\ call' = a
        /\ trace' = r.trace
        /\ outcome' = [p |-> r.p, st |-> IF r.ok THEN "returned" ELSE "raised"]
        /\ lastOp' = [self |-> cmd, op |-> "run", before |-> heap, operands |-> <<>>]
        /\ UNCHANGED <<cmd, heap, runner, io>>

NextHeap ==
    \/ \E args \in {<<"-a">>} : HGetItem(args)
    \/ \E kwargs \in HRedirects : HDoRedirect(kwargs)
    \/ \E kind \in ChainKinds, other \in HObjects \cup {cmd} : HDoCombine(kind, other)
    \/ \E c \in ExitCodes :
          HDoRun([p \in 1..NumLeaves(Deref(heap, cmd)) |-> c])

SpecHeap == InitHeap /\ [][NextHeap]_vars

(***************************************************************************)
(* C13.  The builder operations are copy-on-write.                         *)
(***************************************************************************)
\* C13: an operation changes no list there was before it: the receiver,
\* the operands and every chain that has them as members stand for the
\* commands they stood for; the chain a builder returns has a list of
\* its own, and stands for what the operation on the commands gives; run
\* leaves the heap as it was
C13_CopyOnWrite ==
    lastOp.op # "new" =>
        LET before == lastOp.before
            self   == lastOp.self
        IN  /\ \A a \in 1..Len(before) : heap[a] = before[a]
            /\ Deref(heap, self) = Deref(before, self)
            /\ \A i \in 1..Len(lastOp.operands) :
                  Deref(heap, lastOp.operands[i]) = Deref(before, lastOp.operands[i])
            /\ lastOp.op = "run" => heap = before /\ cmd = self
            /\ (lastOp.op # "run" /\ IsChain(cmd)) => cmd.cmds \notin 1..Len(before)
            /\ lastOp.op = "getitem" =>
                  /\ SubSeq(cmd.args, 1, Len(self.args)) = self.args
                  /\ Deref(heap, cmd) = Deref(before, self)
            /\ lastOp.op = "combine" =>
                  \E kind \in ChainKinds :
                      /\ cmd.k = kind
                      /\ Deref(heap, cmd) \in
                            { PipeTo(Deref(before, self), Deref(before, lastOp.operands[1])),
                              OnSuccess(Deref(before, self), Deref(before, lastOp.operands[1])),
                              OnFailure(Deref(before, self), Deref(before, lastOp.operands[1])) }

\* a pipe is piped into itself: (a | b) | (a | b) has four members and the
\* list of the receiver still has two
C13_Witness ==
    /\ lastOp.op = "combine"
    /\ lastOp.self.k = "pipe" /\ lastOp.operands = <<lastOp.self>>
    /\ cmd.k = "pipe" /\ Len(heap[cmd.cmds]) = 4
    /\ Len(heap[lastOp.self.cmds]) = 2

(***************************************************************************)
(* The Result Adapter, CommandRunner: get_result, wait, check, capture.    *)
(* get_result is the identity, a function of the process (from_proc), or   *)
(* the convert closure made for from_str / from_bytes, which reads and     *)
(* (for from_str) decodes proc.stdout and applies the function to it.      *)
(***************************************************************************)
\* a function the caller passes as a transform
Fn(name) == [t |-> "function", name |-> name]

Identity == [t |-> "identity"]

FromProc(f) == [t |-> "from_proc", f |-> f]

ConvertStr(f) == [t |-> "from_str", f |-> f]

ConvertBytes(f) == [t |-> "from_bytes", f |-> f]

CommandRunner(get_result, wait, check, capture) ==
    [check |-> check, wait |-> wait, get_result |-> get_result, capture |-> capture]

\* a keyword is given when it is there and is not Undefined
Given(kwargs, key) == key \in DOMAIN kwargs /\ ~IsUndefined(kwargs[key])

\* the parameters of __call__ that give a transform
Transforms == {"from_str", "from_bytes", "from_proc"}

\* a count that leaves from_proc out
ConvertsNoProc(kwargs) ==
    Cardinality({ key \in Transforms : key # "from_proc" /\ Given(kwargs, key) })

\* CommandRunner.__call__, line 115
Converts(kwargs) ==
    Cardinality({ key \in Transforms : Given(kwargs, key) })

\* a capture that is the one the caller gave, whatever the transform
CaptureAsGiven(kwargs) ==
    IF Given(kwargs, "capture") THEN kwargs["capture"] ELSE Undefined

\* CommandRunner.__call__, lines 128 and 137: capture = True
CaptureArg(kwargs) ==
    IF Given(kwargs, "from_str") \/ Given(kwargs, "from_bytes") THEN BoolV(TRUE)
    ELSE IF Given(kwargs, "capture") THEN kwargs["capture"] ELSE Undefined

\* CommandRunner.__call__, lines 121-135: from_proc after the two blocks
FromProcArg(kwargs) ==
    IF Given(kwargs, "from_bytes") THEN ConvertBytes(kwargs["from_bytes"])
    ELSE IF Given(kwargs, "from_str") THEN ConvertStr(kwargs["from_str"])
    ELSE IF Given(kwargs, "from_proc") THEN FromProc(kwargs["from_proc"])
    ELSE Undefined

\* CommandRunner.__call__: [error, value]; error is the ValueError
Reconfigure(self, kwargs) ==
    IF Converts(kwargs) > 1 THEN [error |-> TRUE, value |-> NoRunner]
    ELSE
      LET from_proc == FromProcArg(kwargs)
          capture   == CaptureArg(kwargs)
      IN  [error |-> FALSE,
           value |->
             CommandRunner(
               IF IsUndefined(from_proc) THEN self.get_result ELSE from_proc,
               IF Given(kwargs, "wait") THEN kwargs["wait"].b ELSE self.wait,
               IF Given(kwargs, "check") THEN kwargs["check"] ELSE self.check,
               IF IsUndefined(capture) THEN self.capture ELSE capture.b)]

\* runner.py, lines 164-166: run, bg and capture
BaseRunners ==
    { CommandRunner(Identity, TRUE, Undefined, FALSE),
      CommandRunner(Identity, FALSE, Undefined, FALSE),
      Reconfigure(CommandRunner(Identity, TRUE, Undefined, FALSE),
                  [from_str |-> Fn("str")]).value }

\* keyword arguments given in one call of an adapter
MaxKwargs == 3

RunnerKeys == {"from_str", "from_bytes", "from_proc", "capture", "wait", "check"}

RunnerValues(key) ==
    CASE key \in {"from_str", "from_bytes", "from_proc"} -> {Fn("f"), Undefined}
      [] key \in {"capture", "wait"} -> {BoolV(FALSE), BoolV(TRUE)}
      [] key = "check" -> {BoolV(TRUE), IntV(1), Undefined}

\* the keyword dictionaries __call__ is called with
RunnerDicts ==
    UNION { { kw \in [D -> UNION { RunnerValues(key) : key \in RunnerKeys }] :
                \A key \in D : kw[key] \in RunnerValues(key) } :
            D \in { K \in SUBSET RunnerKeys : Cardinality(K) <= MaxKwargs } }

InitRunner ==
    /\ Enumerated(<<Transforms, BaseRunners, RunnerKeys, RunnerDicts>>)
    /\ runner \in BaseRunners
    /\ cmd = Leaf(BoolV(FALSE))
    /\ lastOp = [op |-> "new"]
    /\ call = NoCall
    /\ trace = <<>>
    /\ outcome = NotRun
    /\ heap = NoHeap
    /\ io = NoIO

\* runner = runner(**kwargs); a ValueError leaves the caller with the
\* adapter it had
DoReconfigure(kwargs) ==
    LET r == Reconfigure(runner, kwargs)
    IN  /\ runner' = IF r.error THEN runner ELSE r.value
        /\ lastOp' = [kwargs |-> kwargs, self |-> runner, op |-> "reconfigure",
                      error |-> r.error]
        /\ UNCHANGED <<cmd, call, trace, outcome, heap, io>>

NextRunner == \E kwargs \in RunnerDicts : DoReconfigure(kwargs)

SpecRunner == InitRunner /\ [][NextRunner]_vars

(***************************************************************************)
(* C14.  More than one transform in one call.                              *)
(***************************************************************************)
GivenTransforms ==
    { key \in Transforms :
        key \in DOMAIN lastOp.kwargs /\ lastOp.kwargs[key] # Undefined }

\* C14: a call fails exactly when it gives more than one of from_str,
\* from_bytes and from_proc, and then there is no new adapter
C14_OneTransform ==
    lastOp.op = "reconfigure" =>
        /\ lastOp.error = (Cardinality(GivenTransforms) > 1)
        /\ lastOp.error => runner = lastOp.self

\* from_str and from_proc together, on the capture adapter
C14_Witness ==
    /\ lastOp.op = "reconfigure" /\ lastOp.error
    /\ \A key \in Transforms : key \in GivenTransforms <=> key # "from_bytes"
    /\ lastOp.self.get_result = ConvertStr(Fn("str"))

(***************************************************************************)
(* C15.  What a reconfiguration changes.                                   *)
(***************************************************************************)
NamedIn(key) ==
    key \in DOMAIN lastOp.kwargs /\ lastOp.kwargs[key] # Undefined

\* C15: after a call that did not fail, a from_str or from_bytes makes
\* capture True whatever capture the call gave or the adapter had, and
\* get_result the conversion of the given function; otherwise capture,
\* wait, check and get_result are the ones given, and those not given are
\* the receiver's
C15_ReconfigureFields ==
    (lastOp.op = "reconfigure" /\ ~lastOp.error) =>
        LET self == lastOp.self
            kw   == lastOp.kwargs
        IN  /\ (NamedIn("from_str") \/ NamedIn("from_bytes")) => runner.capture = TRUE
            /\ NamedIn("from_str") => runner.get_result = ConvertStr(kw["from_str"])
            /\ NamedIn("from_bytes") => runner.get_result = ConvertBytes(kw["from_bytes"])
            /\ NamedIn("from_proc") => runner.get_result = FromProc(kw["from_proc"])
            /\ GivenTransforms = {} => runner.get_result = self.get_result
            /\ ~(NamedIn("from_str") \/ NamedIn("from_bytes")) =>
                  runner.capture = IF NamedIn("capture") THEN kw["capture"].b
                                   ELSE self.capture
            /\ runner.wait = IF NamedIn("wait") THEN kw["wait"].b ELSE self.wait
            /\ runner.check = IF NamedIn("check") THEN kw["check"] ELSE self.check

\* bg(from_bytes=f, capture=False): capture is True and wait is still False
C15_Witness ==
    /\ lastOp.op = "reconfigure" /\ ~lastOp.error
    /\ lastOp.self = CommandRunner(Identity, FALSE, Undefined, FALSE)
    /\ NamedIn("from_bytes") /\ NamedIn("capture")
    /\ lastOp.kwargs["capture"] = BoolV(FALSE)
    /\ ~NamedIn("wait")
    /\ runner.capture = TRUE /\ runner.wait = FALSE

(***************************************************************************)
(* Files.  A run opens a path when it spawns the process that uses it      *)
(* (Command.run opens, then calls Popen): "wb" empties the file, "ab"      *)
(* keeps it.  The process of the leaf at path writes its output, the one   *)
(* token <<path>>, to its stdout.  A process that writes to a file is      *)
(* either the last of its run or has been waited on before the next one    *)
(* is spawned, so the content of a file after a run that waits is the      *)
(* fold of the spawn events over it.                                       *)
(***************************************************************************)
\* the spawn events that open path s for writing, in order
FileEvents(tr, s) ==
    SelectSeq(tr, LAMBDA ev : /\ ev.e = "spawn"
                              /\ ev.stdout.t = "file" /\ ev.stdout.s = s)

RECURSIVE WriteAll(_, _)
WriteAll(content, events) ==
    IF events = <<>> THEN content
    ELSE WriteAll((IF Head(events).stdout.mode = "wb" THEN <<>> ELSE content)
                      \o <<Head(events).path>>,
                  Tail(events))

\* the content of path s after a run with log tr that found it with content
FileAfter(s, content, tr) == WriteAll(content, FileEvents(tr, s))

\* the exit codes seen in the log; a process never waited on gets 0
ExitsOf(tr, n) ==
    [p \in 1..n |-> IF ReturnCode(tr, p) = <<>> THEN 0 ELSE ReturnCode(tr, p)[1]]

\* cmd > f,  cmd >> f,  cmd >> g
FileRedirects ==
    { [output |-> PathV("f")],
      [output |-> PathV("f"), append |-> BoolV(TRUE)],
      [output |-> PathV("g"), append |-> BoolV(TRUE)] }

\* cmd = cmd.redirect(**kwargs), the receiver kept in lastOp
DoRedirectFrom(kwargs) ==
    Built(Redirect(cmd, kwargs),
          [kwargs |-> kwargs, op |-> "redirect", before |-> cmd])

\* run() and run(check=True), waiting
FileRunArgs ==
    { Args(Undefined, Undefined, Undefined, TRUE, c) : c \in {Undefined, BoolV(TRUE)} }

NextFiles ==
    \/ \E kwargs \in FileRedirects : DoRedirectFrom(kwargs)
    \/ \E other \in {Leaf(BoolV(FALSE))} : DoPipeTo(other)
    \/ \E other \in {Leaf(BoolV(FALSE))} : DoOnSuccess(other)
    \/ \E other \in {Leaf(BoolV(FALSE))} : DoOnFailure(other)
    \/ \E a \in FileRunArgs, exits \in [1..NumLeaves(cmd) -> ExitCodes] : DoRun(a, exits)

InitFiles == Init /\ Enumerated(<<FileRedirects, FileRunArgs>>)

SpecFiles == InitFiles /\ [][NextFiles]_vars

(***************************************************************************)
(* C16.  cmd > f and cmd >> f, run twice.                                  *)
(***************************************************************************)
\* the content of f after one run like the one logged, and after two
Once(s) == FileAfter(s, <<>>, trace)

Twice(s) == FileAfter(s, Once(s), trace)

\* no leaf of n has s as its output
WritesNot(n, s) ==
    \A i \in 1..Len(LeavesOf(n)) : LeavesOf(n)[i].output # PathV(s)

\* C16 as claimed, for a cmd that did not write to f already: after
\* cmd >> f two runs leave the output of one run twice in f; after cmd > f
\* they leave the output of one run once
C16_AppendAndTruncate ==
    (/\ Ran /\ lastOp.op = "redirect" /\ lastOp.kwargs["output"] = PathV("f")
     /\ WritesNot(lastOp.before, "f")) =>
        IF "append" \in DOMAIN lastOp.kwargs
        THEN Twice("f") = Once("f") \o Once("f")
        ELSE Twice("f") = Once("f")

(***************************************************************************)
(* C17.  Redirecting the output of a chain.                                *)
(***************************************************************************)
\* the chain with kwargs applied to its last member alone
LastRedirected(n, kwargs) ==
    [n EXCEPT !.cmds[Len(n.cmds)] = Redirect(n.cmds[Len(n.cmds)], kwargs)]

\* C17 as claimed: a run of chain.redirect(output=f ...) opens f as the
\* run of the chain with only its last member redirected does, given the
\* same exit codes; only leaves of the last member open f, and f gets
\* the output of the last leaf exactly when that leaf is run
C17_ChainOutputIsLastOutput ==
    (/\ Ran /\ lastOp.op = "redirect" /\ lastOp.kwargs["output"] = PathV("f")
     /\ IsChain(cmd) /\ NumMembers >= 2
     /\ WritesNot(lastOp.before, "f")) =>
        LET ref == LastRedirected(lastOp.before, lastOp.kwargs)
            n   == NumLeaves(cmd)
            r   == RunNode(ref, <<>>, call, <<>>, ExitsOf(trace, n))
        IN  /\ FileEvents(trace, "f") = FileEvents(r.trace, "f")
            /\ \A j \in SpawnsOf(trace) :
                  (trace[j].stdout.t = "file" /\ trace[j].stdout.s = "f")
                      => trace[j].path[1] = NumMembers
            /\ (Once("f") # <<>>) =
                  (\E j \in SpawnsOf(trace) : trace[j].path = LastPath(cmd))

(***************************************************************************)
(* bg.                                                                     *)
(***************************************************************************)
\* BaseCommand.bg, line 110: the arguments it calls run with
BgArgs(stdin, stdout, append) == Args(stdin, stdout, append, FALSE, BoolV(FALSE))

\* cmd.bg(stdin, stdout, append)
DoBg(stdin, stdout, append, exits) ==
    LET a == BgArgs(stdin, stdout, append)
        r == RunNode(cmd, <<>>, a, <<>>, exits)
    IN  /\ outcome = NotRun
        /\ call' = a
        /\ trace' = r.trace
        /\ outcome' = [p |-> r.p, by |-> "bg",
                       st |-> IF r.ok THEN "returned" ELSE "raised"]
        /\ UNCHANGED <<cmd, lastOp, heap, runner, io>>

NextBg ==
    \/ \E kwargs \in RunRedirects : DoRedirect(kwargs)
    \/ \E other \in Operands : DoPipeTo(other)
    \/ \E other \in Operands : DoOnSuccess(other)
    \/ \E other \in Operands : DoOnFailure(other)
    \/ \E stdin \in StdinArgs, o \in OutArgs,
          exits \in [1..NumLeaves(cmd) -> ExitCodes] : DoBg(stdin, o[1], o[2], exits)

SpecBg == Init /\ [][NextBg]_vars

(***************************************************************************)
(* C19.  bg and run(wait=False).                                           *)
(***************************************************************************)
\* the processes a run spawned, in order: leaf, stdin and stdout
Streams(tr) ==
    LET spawns == SelectSeq(tr, LAMBDA ev : ev.e = "spawn")
    IN  [j \in 1..Len(spawns) |->
           <<spawns[j].path, spawns[j].stdin, spawns[j].stdout>>]

\* C19 as claimed: bg spawns the processes, with the streams, that
\* run(wait=False) with the same stdin, stdout and append spawns given the
\* same exit codes, and ends as it ends
C19_BgIsRunNoWait ==
    (Ran /\ "by" \in DOMAIN outcome) =>
        LET a == Args(call.stdin, call.stdout, call.append, FALSE, Undefined)
            r == RunNode(cmd, <<>>, a, <<>>, ExitsOf(trace, NumLeaves(cmd)))
        IN  /\ Streams(trace) = Streams(r.trace)
            /\ (outcome.st = "returned") = r.ok
            /\ outcome.p = r.p

(***************************************************************************)
(* Capturing the output of one process, step by step.  bytes(cmd) and      *)
(* str(cmd) call run(stdout=PIPE, wait=True) and then proc.stdout.read();  *)
(* a capturing adapter calls run(stdout=PIPE, wait=self.wait) and then its *)
(* get_result, which reads.  The child writes its output into the pipe,    *)
(* which holds PipeCapacity units: a write to a full pipe blocks, and the  *)
(* child exits when it has written everything.  proc.wait() returns when   *)
(* the child has exited; read() returns at end of file, when the pipe is   *)
(* empty and the child, the only writer, has exited.                       *)
(***************************************************************************)
MaxOutput == 6

PipeCapacity == 3

CaptureForms == {"bytes", "str", "runner"}

InitCapture ==
    /\ io \in { [form |-> f, wait |-> w, pc |-> "start", child |-> "none",
                  pending |-> n, pipe |-> 0, got |-> 0] :
                   f \in CaptureForms, w \in BOOLEAN, n \in 0..MaxOutput }
    /\ io.form \in {"bytes", "str"} => io.wait
    /\ cmd = Leaf(BoolV(FALSE))
    /\ lastOp = [op |-> "new"]
    /\ call = NoCall
    /\ trace = <<>>
    /\ outcome = NotRun
    /\ heap = NoHeap
    /\ runner = NoRunner

Rest == <<cmd, lastOp, call, trace, outcome, heap, runner>>

\* Command.run, line 292: Popen with stdout=PIPE; then line 294, if wait
Spawn ==
    /\ io.pc = "start"
    /\ io' = [io EXCEPT !.child = "running",
                        !.pc = IF io.wait THEN "wait" ELSE "read"]
    /\ UNCHANGED Rest

\* the child writes a unit of its output, if the pipe has room
ChildWrite ==
    /\ io.child = "running" /\ io.pending > 0 /\ io.pipe < PipeCapacity
    /\ io' = [io EXCEPT !.pending = @ - 1, !.pipe = @ + 1]
    /\ UNCHANGED Rest

\* the child has written everything and exits
ChildExit ==
    /\ io.child = "running" /\ io.pending = 0
    /\ io' = [io EXCEPT !.child = "exited"]
    /\ UNCHANGED Rest

\* Command.run, line 295: proc.wait() returns; run returns proc
WaitReturns ==
    /\ io.pc = "wait" /\ io.child = "exited"
    /\ io' = [io EXCEPT !.pc = "read"]
    /\ UNCHANGED Rest

\* proc.stdout.read() takes a unit from the pipe
Read ==
    /\ io.pc = "read" /\ io.pipe > 0
    /\ io' = [io EXCEPT !.pipe = @ - 1, !.got = @ + 1]
    /\ UNCHANGED Rest

\* proc.stdout.read() reaches end of file and returns the output
ReadReturns ==
    /\ io.pc = "read" /\ io.pipe = 0 /\ io.child = "exited"
    /\ io' = [io EXCEPT !.pc = "done"]
    /\ UNCHANGED Rest

NextCapture ==
    \/ Spawn
    \/ ChildWrite
    \/ ChildExit
    \/ WaitReturns
    \/ Read
    \/ ReadReturns

SpecCapture == InitCapture /\ [][NextCapture]_vars

\* the child and the caller both run whenever they can
SpecCaptureLive ==
    /\ SpecCapture
    /\ WF_vars(Spawn) /\ WF_vars(ChildWrite) /\ WF_vars(ChildExit)
    /\ WF_vars(WaitReturns) /\ WF_vars(Read) /\ WF_vars(ReadReturns)

(***************************************************************************)
(* C20.  Capturing terminates.                                             *)
(***************************************************************************)
\* C20 as claimed: bytes(cmd), str(cmd) and a capturing adapter that waits
\* eventually return the output, whatever its size
C20_CaptureTerminates ==
    (io.pc = "start" /\ io.wait) ~> (io.pc = "done")

(***************************************************************************)
(* Applying an adapter to a command: CommandRunner.run.                    *)
(***************************************************************************)
\* runner.py, lines 164-165: run and bg
RunAdapter == CommandRunner(Identity, TRUE, Undefined, FALSE)

BgAdapter == CommandRunner(Identity, FALSE, Undefined, FALSE)

\* adapters with a string or bytes transform: run(from_str=str) (which is
\* capture), run(from_bytes=bytes), bg(from_str=str), checked variants, and
\* capture(capture=False)
TransformAdapters ==
    { Reconfigure(r, kw).value :
        r \in {RunAdapter, BgAdapter},
        kw \in { [from_str |-> Fn("str")], [from_bytes |-> Fn("bytes")],
                 [check |-> BoolV(TRUE), from_str |-> Fn("str")] } }
    \cup { Reconfigure(Reconfigure(RunAdapter, [from_str |-> Fn("str")]).value,
                       [capture |-> BoolV(FALSE)]).value }

\* CommandRunner.run, lines 26-27: the arguments it calls command.run with
RunnerArgs(self) ==
    Args(Undefined, IF self.capture THEN PIPE ELSE Undefined, Undefined,
         self.wait, self.check)

\* get_result(proc): the convert closures assert proc.stdout before they
\* read it; identity and from_proc functions are handed the process
GetResult(self, stdout) ==
    IF self.get_result.t \in {"from_str", "from_bytes"}
    THEN IF stdout = None THEN [error |-> "AssertionError"]
         ELSE [by |-> self.get_result, error |-> "none", read |-> stdout]
    ELSE [by |-> self.get_result, error |-> "none"]

InitApply ==
    /\ Enumerated(<<BaseLeaves, TransformAdapters, Operands>>)
    /\ cmd \in BaseLeaves
    /\ runner \in TransformAdapters
    /\ lastOp = [op |-> "new"]
    /\ call = NoCall
    /\ trace = <<>>
    /\ outcome = NotRun
    /\ heap = NoHeap
    /\ io = NoIO

\* runner(cmd), i.e. CommandRunner.run(cmd)
DoApply(exits) ==
    LET a == RunnerArgs(runner)
        r == RunNode(cmd, <<>>, a, <<>>, exits)
        result == IF r.ok THEN GetResult(runner, ProcStdout(r.trace, r.p))
                  ELSE [error |-> "CalledProcessError"]
    IN  /\ outcome = NotRun
        /\ call' = a
        /\ trace' = r.trace
        /\ outcome' = [p |-> r.p, by |-> "runner",
                       st |-> IF r.ok THEN "returned" ELSE "raised", result |-> result]
        /\ UNCHANGED <<cmd, lastOp, heap, runner, io>>

NextApply ==
    \/ \E kwargs \in RunRedirects : DoRedirect(kwargs)
    \/ \E other \in Operands : DoPipeTo(other)
    \/ \E other \in Operands : DoOnSuccess(other)
    \/ \E other \in Operands : DoOnFailure(other)
    \/ \E exits \in [1..NumLeaves(cmd) -> ExitCodes] : DoApply(exits)

SpecApply == InitApply /\ [][NextApply]_vars

(***************************************************************************)
(* C21.  The handle a transform is given carries a captured stdout.        *)
(***************************************************************************)
\* C21 as claimed: when a capturing adapter with a string or bytes transform
\* is applied and the command's run returns a handle, the handle has a
\* stdout stream and the transform's assertion passes
C21_HandleHasStdout ==
    (/\ Ran /\ "result" \in DOMAIN outcome
     /\ outcome.st = "returned"
     /\ runner.capture
     /\ runner.get_result.t \in {"from_str", "from_bytes"}) =>
        /\ ProcStdout(trace, outcome.p) # None
        /\ outcome.result.error = "none"

(***************************************************************************)
(* The streams a run opens.  Command._get_file opens a path with           *)
(* open(file, mode) and Command.run hands the stream to Popen; no code     *)
(* closes it.  A stream nothing refers to any more is closed by the        *)
(* garbage collector, at a time of its choosing.  When Command.run returns *)
(* its frame, the only holder of the stream, is gone; when it raises, the  *)
(* traceback of the exception holds the frame and with it the streams of   *)
(* the run that raised.                                                    *)
(***************************************************************************)
\* the streams opened from paths during a run, for processes started or not
Opened(tr) ==
    UNION { {tr[i].stdin, tr[i].stdout} \ {x \in {tr[i].stdin, tr[i].stdout} : x.t # "file"} :
            i \in { j \in 1..Len(tr) : tr[j].e \in {"spawn", "spawnfail"} } }

\* the streams the traceback of the exception refers to
Pinned(tr, r) ==
    IF r.ok THEN {} ELSE { x \in Opened(tr) : x.by = r.p }

\* run and run(check=True), waiting or not
LeakRunArgs ==
    { Args(Undefined, Undefined, Undefined, w, c) :
        w \in BOOLEAN, c \in {Undefined, BoolV(TRUE)} }

\* cmd.run(...): outcome.open is the streams still open when the call ends,
\* collected the ones the garbage collector has closed by then
DoRunStreams(a, exits) ==
    LET r == RunNode(cmd, <<>>, a, <<>>, exits)
    IN  /\ outcome = NotRun
        /\ \E collected \in SUBSET (Opened(r.trace) \ Pinned(r.trace, r)) :
             outcome' = [p |-> r.p, by |-> "streams",
                         st |-> IF r.ok THEN "returned" ELSE "raised",
                         open |-> Opened(r.trace) \ collected]
        /\ call' = a
        /\ trace' = r.trace
        /\ UNCHANGED <<cmd, lastOp, heap, runner, io>>

\* how each process of a run ends: an exit code, or it is never started
StreamExits == ExitCodes \cup {SpawnFails}

NextStreams ==
    \/ \E kwargs \in RunRedirects : DoRedirect(kwargs)
    \/ \E other \in {Leaf(BoolV(FALSE))} : DoPipeTo(other)
    \/ \E other \in {Leaf(BoolV(FALSE))} : DoOnSuccess(other)
    \/ \E other \in {Leaf(BoolV(FALSE))} : DoOnFailure(other)
    \/ \E a \in LeakRunArgs,
          exits \in [1..NumLeaves(cmd) -> StreamExits] :
          DoRunStreams(a, exits)

InitStreams == Init /\ Enumerated(<<LeakRunArgs, StreamExits>>)

SpecStreams == InitStreams /\ [][NextStreams]_vars

(***************************************************************************)
(* C22.  No stream is left open.                                           *)
(***************************************************************************)
\* C22 as claimed: when a run made with wait=True returns or raises, every
\* stream it opened from a path has been closed
C22_NoStreamLeft ==
    (Ran /\ "open" \in DOMAIN outcome /\ call.wait) => outcome.open = {}

====
